---- MODULE Spec2Model ----
(***************************************************************************)
(* Model of layers.py: the layer() decorator (class Layer), the global     *)
(* train/infer phase flag, and the layer functions the decorator wraps.    *)
(*                                                                         *)
(* A Python script that uses the module builds a graph: it constructs      *)
(* Layer objects, applies them to tensors (L(x) or x >> L), and later runs *)
(* the built ops in a session, toggling the phase flag in between.  The    *)
(* state is the Layer objects, the templates and variable scopes they own, *)
(* the graph collections (trainable variables, summaries), the log, the    *)
(* phase flag, the value the last statement returned and the value the     *)
(* last session run computed.                                              *)
(*                                                                         *)
(* Names are sequences of tokens ("x", "_", "1", "/", ...) so that scope   *)
(* uniquification, str.split and the prefix match of get_collection are    *)
(* computed on the text of the names.  Real numbers are rationals          *)
(* [num, den] in lowest terms; den = 0 stands for inf/nan.                 *)
(***************************************************************************)
EXTENDS Integers, Sequences, FiniteSets, TLC

VARIABLES
    phase,                \* value of the local variable _phase
    layers,               \* the Layer objects constructed so far
    templates,            \* their tf templates: scope and _variables_created
    var_scopes,           \* variable scope names opened in the variable store
    trainable_variables,  \* GraphKeys.TRAINABLE_VARIABLES, names in creation order
    summaries,            \* GraphKeys.SUMMARIES, tags in registration order
    log,                  \* tf.logging.info's output: the number of lines and the last
    ret,                  \* what the last statement did and returned
    pc,                   \* "running", or "raised" after an uncaught exception
    run                   \* what the last session run of a layer's output computed

vars == <<phase, layers, templates, var_scopes, trainable_variables, summaries,
          log, ret, pc, run>>

----------------------------------------------------------------------------
(* Bounds of the model. *)

\* Layer objects and calls of a script that builds a graph
MaxLayers == 2

MaxCalls == 3

\* Layer objects and calls of a script that also runs what it built
MaxRunLayers == 1

MaxRunCalls == 2

----------------------------------------------------------------------------
(* Small helpers for Python values. *)

\* dict.get(key, default)
Get(d, key, default) == IF key \in DOMAIN d THEN d[key] ELSE default

RECURSIVE Prod(_)
Prod(s) == IF s = <<>> THEN 1 ELSE Head(s) * Prod(Tail(s))

IsPrefix(p, s) == Len(p) <= Len(s) /\ SubSeq(s, 1, Len(p)) = p

\* the last index of token tok in s, 0 when absent
LastIndexOf(s, tok) ==
    IF \E k \in 1..Len(s) : s[k] = tok
    THEN CHOOSE k \in 1..Len(s) : s[k] = tok /\ \A j \in (k+1)..Len(s) : s[j] # tok
    ELSE 0

\* name.split("/")[-1]
LastSegment(s) == SubSeq(s, LastIndexOf(s, "/") + 1, Len(s))

NoAttr == [none |-> TRUE]

Tensor(op, dtype, shape, attr) ==
    [op |-> op, dtype |-> dtype, shape |-> shape, attr |-> attr]

_rank(x) == Len(x.shape)

----------------------------------------------------------------------------
(* float32 values as rationals in lowest terms. *)

Abs(n) == IF n < 0 THEN -n ELSE n

Sign(n) == IF n < 0 THEN -1 ELSE IF n > 0 THEN 1 ELSE 0

RECURSIVE Gcd(_, _)
Gcd(a, b) == IF b = 0 THEN a ELSE Gcd(b, a % b)

\* n/d in lowest terms with a positive denominator; n/0 is inf (n # 0) or nan
Rat(n, d) ==
    IF d = 0 THEN [num |-> Sign(n), den |-> 0]
    ELSE LET g == Gcd(Abs(n), Abs(d))
         IN  [num |-> Sign(d) * (n \div g), den |-> Abs(d) \div g]

R(n) == Rat(n, 1)

NaN == Rat(0, 0)

IsFinite(a) == a.den # 0

Add(a, b) ==
    IF IsFinite(a) /\ IsFinite(b) THEN Rat(a.num * b.den + b.num * a.den, a.den * b.den)
    ELSE IF IsFinite(b) THEN a
    ELSE IF IsFinite(a) THEN b
    ELSE IF a = b THEN a ELSE NaN

\* inf * 0 and nan * anything are nan
Mul(a, b) == Rat(a.num * b.num, a.den * b.den)

Reciprocal(a) == IF a = NaN THEN NaN ELSE Rat(a.den, a.num)

Div(a, b) == Mul(a, Reciprocal(b))

Floor(a) == IF IsFinite(a) THEN R(a.num \div a.den) ELSE a

----------------------------------------------------------------------------
(* The phase flag and the dropout helpers. *)

\* tf.cond(pred, true_fn, false_fn) adds a conditional node to the graph; both
\* branches are built now and the predicate is read when the node is run.
Cond(pred, true_fn, false_fn) == [pred |-> pred, true_fn |-> true_fn, false_fn |-> false_fn]

\* A session evaluating a conditional node on _phase reads the flag then.
EvalCond(node) == IF phase THEN node.true_fn ELSE node.false_fn

\* _global_keep_prob as a Python-level test of the flag while the graph is built
_global_keep_prob_at_build(keep_prob) ==
    IF phase THEN Cond("_phase", keep_prob, keep_prob)
    ELSE Cond("_phase", Add(Mul(keep_prob, R(0)), R(1)), Add(Mul(keep_prob, R(0)), R(1)))

_global_keep_prob(keep_prob) ==
    Cond("_phase", keep_prob, Add(Mul(keep_prob, R(0)), R(1)))

\* uniform is the draw of tf.random_uniform(tensor_shape), one value per element
_apply_dropout_mask(uniform, keep_prob, normalize) ==
    LET random_tensor == [k \in DOMAIN uniform |-> Add(keep_prob, uniform[k])]
        binary_mask == [k \in DOMAIN uniform |-> Floor(random_tensor[k])]
    IN  IF normalize
        THEN [k \in DOMAIN uniform |-> Mul(Reciprocal(keep_prob), binary_mask[k])]
        ELSE binary_mask

\* tf.nn.dropout(x, keep_prob): x / keep_prob * floor(keep_prob + uniform)
nn_dropout(x, keep_prob, uniform) ==
    [k \in DOMAIN x |-> Mul(Div(x[k], keep_prob), Floor(Add(keep_prob, uniform[k])))]

\* dropout_layer's op on values: x is the flat tensor
dropout_layer_run(x, keep_prob_node, uniform) ==
    nn_dropout(x, EvalCond(keep_prob_node), uniform)

\* word_dropout_layer's op on values: x is a sequence of word vectors, the
\* mask has one entry per word and is broadcast over the vector
word_dropout_layer_run(x, keep_prob_node, uniform) ==
    LET binary_mask == _apply_dropout_mask(uniform, EvalCond(keep_prob_node), FALSE)
    IN  [w \in DOMAIN x |-> [d \in DOMAIN x[w] |-> Mul(x[w][d], binary_mask[w])]]

\* tf.reshape(target, shape=(-1, )) on values: a scalar or a vector keeps its
\* elements, a matrix is read row by row
RECURSIVE Flatten(_)
Flatten(rows) == IF rows = <<>> THEN <<>> ELSE Head(rows) \o Flatten(Tail(rows))

reshape_flat(target, rank) ==
    IF rank = 0 THEN <<target>> ELSE IF rank = 1 THEN target ELSE Flatten(target)

\* cross_entropy_layer_run with the mask of tf.equal
cross_entropy_layer_run_mask_equal(cross_entropy, target) ==
    LET mask == [k \in DOMAIN target |-> IF target[k] = 0 THEN R(1) ELSE R(0)]
    IN  [k \in DOMAIN cross_entropy |-> Mul(cross_entropy[k], mask[k])]

\* cross_entropy_layer's ops on values: target is the flattened target,
\* cross_entropy what tf.nn.sparse_softmax_cross_entropy_with_logits computed
\* for each position
cross_entropy_layer_run(cross_entropy, target) ==
    LET mask == [k \in DOMAIN target |-> IF target[k] # 0 THEN R(1) ELSE R(0)]
    IN  [k \in DOMAIN cross_entropy |-> Mul(cross_entropy[k], mask[k])]

----------------------------------------------------------------------------
(* The host framework's variable scopes and collections.  A variable is    *)
(* its name and shape.  vs is the variable scope a function runs in: the   *)
(* scope's name, its reuse flag and the graph's trainable variables.       *)

\* the name a variable scope opened with default_name gets: the name itself
\* when unused, otherwise the name with the first unused suffix _1, _2, ...
RECURSIVE unique_suffix(_, _, _)
unique_suffix(scopes, prefix, idx) ==
    IF prefix \o <<"_", ToString(idx)>> \in scopes
    THEN unique_suffix(scopes, prefix, idx + 1)
    ELSE prefix \o <<"_", ToString(idx)>>

\* the scope opened under the given name whether or not it is in use, as
\* tf.variable_scope(name) does
shared_variable_scope(scopes, prefix) == prefix

unique_variable_scope(scopes, prefix) ==
    IF prefix \notin scopes THEN prefix ELSE unique_suffix(scopes, prefix, 1)

\* the name of the variable tf.get_variable(name) makes in a scope
variable_name(scope, name) == scope \o <<"/">> \o name \o <<":0">>

\* get_variable as tf.Variable behaves: always a new variable, under a name
\* made unique with a count
get_variable_always_new(vs, name, shape) ==
    LET new == [name |-> variable_name(vs.scope,
                                       name \o <<"_", ToString(Len(vs.collection))>>),
                shape |-> shape]
    IN  [vs |-> [vs EXCEPT !.collection = Append(@, new)], raised |-> FALSE, var |-> new]

\* tf.get_variable(name, initializer=<tensor of the shape>): under reuse the
\* variable must exist and is returned as it is; otherwise it must not exist
\* and is created and added to the trainable variables
get_variable(vs, name, shape) ==
    LET v == variable_name(vs.scope, name)
        found == {k \in DOMAIN vs.collection : vs.collection[k].name = v}
        new == [name |-> v, shape |-> shape]
    IN  IF found # {}
        THEN [vs |-> vs, raised |-> ~vs.reuse,
              var |-> vs.collection[CHOOSE k \in found : TRUE]]
        ELSE IF vs.reuse THEN [vs |-> vs, raised |-> TRUE, var |-> new]
        ELSE [vs |-> [vs EXCEPT !.collection = Append(@, new)], raised |-> FALSE,
              var |-> new]

\* tf.get_collection(key, scope): the items whose name re.match(scope, name)
\* accepts, i.e. the names that begin with the text of scope
get_collection(collection, scope) ==
    SelectSeq(collection, LAMBDA v : IsPrefix(scope, v.name))

----------------------------------------------------------------------------
(* The layer functions, as they build the graph.  Each returns what its    *)
(* body does when the template calls it in scope vs on tensor with the     *)
(* constructor's args and kwargs: the trainable variables afterwards,      *)
(* whether it raised, the summaries it registers itself, and the tensor it *)
(* returns.  Shapes are static and fully known, as for the tf.constant of  *)
(* the demo, so a shape error is raised while the graph is built.          *)

Built(collection, summary, out) ==
    [collection |-> collection, raises |-> FALSE, summary |-> summary, out |-> out]

Raises(collection) ==
    [collection |-> collection, raises |-> TRUE, summary |-> <<>>,
     out |-> Tensor("error", "none", <<>>, NoAttr)]

identity_layer(vs, tensor, args, kwargs) ==
    Built(vs.collection, <<>>, Tensor("identity", tensor.dtype, tensor.shape, NoAttr))

\* embedding_layer(tensor, vocab_size, embedding_dim, embedding_matrix=None)
embedding_layer(vs, tensor, args, kwargs) ==
    LET g == IF "embedding_matrix" \in DOMAIN kwargs
             THEN [vs |-> vs, raised |-> FALSE, var |-> kwargs.embedding_matrix]
             ELSE get_variable(vs, <<"embedding_matrix">>, <<args[1], args[2]>>)
    IN  IF g.raised \/ tensor.dtype # "int64"   \* tf.nn.embedding_lookup wants ids
        THEN Raises(g.vs.collection)
        ELSE Built(g.vs.collection, <<>>,
                   Tensor("embedding_lookup", "float32",
                          tensor.shape \o <<g.var.shape[2]>>, NoAttr))

\* tf.reshape(out, shape=original_tensor_shape): the result has the requested
\* shape; <<-1>> stands for the error raised when the element counts differ
reshape_back(out_shape, original_tensor_shape) ==
    IF Prod(out_shape) = Prod(original_tensor_shape)
    THEN original_tensor_shape
    ELSE <<-1>>

\* dense_layer(tensor, hidden_dims, weight=None, bias=None, **opts)
dense_layer(vs, tensor, args, kwargs) ==
    LET hidden_dims == args[1]
        original_tensor_shape == tensor.shape
        rank == _rank(tensor)
    IN  IF rank = 0 THEN Raises(vs.collection)   \* tensor.get_shape()[-1]
        ELSE
        LET in_dim == tensor.shape[rank]
            flat == IF rank > 2
                    THEN <<Prod(SubSeq(tensor.shape, 1, rank - 1)), in_dim>>
                    ELSE tensor.shape
            name == Get(kwargs, "name", <<>>)
            w == IF "weight" \in DOMAIN kwargs
                 THEN [vs |-> vs, raised |-> FALSE, var |-> kwargs.weight]
                 ELSE get_variable(vs, name \o <<"_dense_W">>, <<in_dim, hidden_dims>>)
            b == IF "bias" \in DOMAIN kwargs
                 THEN [vs |-> w.vs, raised |-> FALSE, var |-> kwargs.bias]
                 ELSE get_variable(w.vs, name \o <<"_dense_b">>, <<hidden_dims>>)
        IN  IF w.raised THEN Raises(w.vs.collection)
            ELSE IF b.raised THEN Raises(b.vs.collection)
            ELSE IF tensor.dtype # "float32" \/ Len(flat) # 2
                    \/ flat[2] # w.var.shape[1] \/ b.var.shape # <<w.var.shape[2]>>
            THEN Raises(b.vs.collection)        \* tf.matmul, tf.add
            ELSE
            LET out == <<flat[1], w.var.shape[2]>>
                back == IF rank > 2 THEN reshape_back(out, original_tensor_shape) ELSE out
            IN  IF back = <<-1>> THEN Raises(b.vs.collection)
                ELSE Built(b.vs.collection, <<>>, Tensor("dense", "float32", back, NoAttr))

\* dropout_layer(tensor, keep_prob=1.0, **opts)
dropout_layer(vs, tensor, args, kwargs) ==
    LET keep_prob == _global_keep_prob(Get(kwargs, "keep_prob", R(1)))
    IN  IF tensor.dtype # "float32" THEN Raises(vs.collection)   \* tf.nn.dropout
        ELSE Built(vs.collection, <<>>,
                   Tensor("dropout", "float32", tensor.shape, [keep_prob |-> keep_prob]))

\* word_dropout_layer(tensor, keep_prob=1.0, **opts)
word_dropout_layer(vs, tensor, args, kwargs) ==
    LET keep_prob == _global_keep_prob(Get(kwargs, "keep_prob", R(1)))
        rank == _rank(tensor)
    IN  IF rank # 3 THEN Raises(vs.collection)   \* assert rank == 3
        ELSE IF tensor.dtype # "float32" THEN Raises(vs.collection)   \* tensor * mask
        ELSE Built(vs.collection, <<>>,
                   Tensor("word_dropout", "float32", tensor.shape,
                          [keep_prob |-> keep_prob]))

\* cross_entropy_layer(tensor, target, **opts): sparse softmax cross entropy
\* wants labels of the logits' shape without its last dimension
cross_entropy_layer(vs, tensor, args, kwargs) ==
    LET rank == _rank(tensor)
        target == IF rank > 1 THEN <<Prod(args[1].shape)>> ELSE args[1].shape
    IN  IF rank = 0 \/ target # SubSeq(tensor.shape, 1, rank - 1)
           \/ tensor.dtype # "float32" \/ args[1].dtype # "int64"
        THEN Raises(vs.collection)
        ELSE Built(vs.collection, <<>>, Tensor("cross_entropy", "float32", target, NoAttr))

\* whether shapes a and b broadcast: aligned at the end, each pair of
\* dimensions is equal or has a 1
Broadcasts(a, b) ==
    \A k \in 1..(IF Len(a) < Len(b) THEN Len(a) ELSE Len(b)) :
        \/ a[Len(a) + 1 - k] = b[Len(b) + 1 - k]
        \/ a[Len(a) + 1 - k] = 1
        \/ b[Len(b) + 1 - k] = 1

\* mean_loss_by_example_layer(tensor, sequence_length, **opts)
mean_loss_by_example_layer(vs, tensor, args, kwargs) ==
    IF _rank(tensor) < 2               \* tf.reduce_sum(tensor, axis=1)
       \/ tensor.dtype # "float32"     \* tf.div by the float32 lengths
       \/ ~Broadcasts(<<tensor.shape[1]>> \o SubSeq(tensor.shape, 3, _rank(tensor)),
                      args[1].shape)
    THEN Raises(vs.collection)
    ELSE Built(vs.collection, << <<"cost">> >>, Tensor("mean_loss", "float32", <<>>, NoAttr))

\* func.__name__ as a name
func_name(func) == <<func>>

\* func(x, *args, **kwargs) run in scope vs
Apply(func, vs, x, args, kwargs) ==
    CASE func = "identity_layer" -> identity_layer(vs, x, args, kwargs)
      [] func = "embedding_layer" -> embedding_layer(vs, x, args, kwargs)
      [] func = "dense_layer" -> dense_layer(vs, x, args, kwargs)
      [] func = "dropout_layer" -> dropout_layer(vs, x, args, kwargs)
      [] func = "word_dropout_layer" -> word_dropout_layer(vs, x, args, kwargs)
      [] func = "cross_entropy_layer" -> cross_entropy_layer(vs, x, args, kwargs)
      [] func = "mean_loss_by_example_layer" -> mean_loss_by_example_layer(vs, x, args, kwargs)

----------------------------------------------------------------------------
(* Templates.  S is the state of the program as a record.                  *)

State ==
    [layers |-> layers, templates |-> templates, var_scopes |-> var_scopes,
     trainable_variables |-> trainable_variables, summaries |-> summaries,
     log |-> log, ret |-> ret, pc |-> pc]

\* tf.make_template(name, func, create_scope_now_=True): a new template whose
\* variable scope is opened now, under a name no other scope has
make_template(S, name) ==
    LET scope == unique_variable_scope(S.var_scopes, name)
    IN  [S EXCEPT !.templates = Append(@, [name |-> name, variable_scope |-> scope,
                                           variables_created |-> FALSE]),
                  !.var_scopes = @ \cup {scope}]

\* template(x, *args, **kwargs): the first call runs the function in the
\* template's scope and then sets _variables_created; later calls run it
\* with reuse=True.  Returns the state and the function's result.
template_call(S, t, func, x, args, kwargs) ==
    LET tmpl == S.templates[t]
        vs == [scope |-> tmpl.variable_scope, reuse |-> tmpl.variables_created,
               collection |-> S.trainable_variables]
        f == Apply(func, vs, x, args, kwargs)
    IN  [state |-> [S EXCEPT !.trainable_variables = f.collection,
                             !.summaries = @ \o [k \in DOMAIN f.summary |->
                                                 tmpl.variable_scope \o <<"/">> \o f.summary[k]],
                             !.templates[t].variables_created = @ \/ ~f.raises],
         raised |-> f.raises,
         out |-> f.out]

----------------------------------------------------------------------------
(* class Layer *)

\* Layer.__init__(self, *args, **kwargs); the new object is the last of layers
__init__(S, func, args, kwargs) ==
    LET name == Get(kwargs, "name", func_name(func))
        T == make_template(S, name)
        t == Len(T.templates)
    IN  [T EXCEPT !.layers = Append(@, [func |-> func, args |-> args, kwargs |-> kwargs,
                                        name |-> name, template |-> t,
                                        unique_name |-> LastSegment(T.templates[t].variable_scope),
                                        summary_added |-> FALSE]),
                  !.ret = [layer |-> Len(S.layers) + 1, raised |-> FALSE]]

\* Layer.variable_scope_name
variable_scope_name(S, self) == S.templates[S.layers[self].template].variable_scope

\* Layer.get_variables_in_scope; the assertion has been checked by the caller
get_variables_in_scope(S, self) ==
    get_collection(S.trainable_variables, variable_scope_name(S, self))

\* whether the assertion of get_variables_in_scope holds
variables_created(S, self) == S.templates[S.layers[self].template].variables_created

\* Layer._layer_logging(self, other, out)
_layer_logging(S, self, other, out) ==
    [S EXCEPT !.log = [n |-> @.n + 1,
                       last |-> <<S.layers[self].unique_name, "shape", other.shape,
                                  out.shape>>]]

\* _add_summary without the test of summary_added
_add_summary_every_call(S, self) ==
    IF ~Get(S.layers[self].kwargs, "summary", FALSE) THEN S
    ELSE IF ~variables_created(S, self) THEN [S EXCEPT !.pc = "raised"]
    ELSE [S EXCEPT !.summaries = @ \o [k \in DOMAIN get_variables_in_scope(S, self) |->
                                        get_variables_in_scope(S, self)[k].name],
                   !.layers[self].summary_added = TRUE]

\* _add_summary marking the layer before it looks at the summary option
_add_summary_marks_first(S, self) ==
    IF ~Get(S.layers[self].kwargs, "summary", FALSE)
    THEN [S EXCEPT !.layers[self].summary_added = TRUE]
    ELSE IF S.layers[self].summary_added THEN S
    ELSE [S EXCEPT !.summaries = @ \o [k \in DOMAIN get_variables_in_scope(S, self) |->
                                        get_variables_in_scope(S, self)[k].name],
                   !.layers[self].summary_added = TRUE]

\* Layer._add_summary(self)
_add_summary(S, self) ==
    IF ~Get(S.layers[self].kwargs, "summary", FALSE) THEN S
    ELSE IF S.layers[self].summary_added THEN S
    ELSE IF ~variables_created(S, self) THEN [S EXCEPT !.pc = "raised"]
    ELSE [S EXCEPT !.summaries = @ \o [k \in DOMAIN get_variables_in_scope(S, self) |->
                                        get_variables_in_scope(S, self)[k].name],
                   !.layers[self].summary_added = TRUE]

\* Layer.__call__(self, x); an exception of the template ends the program
__call__(S, self, x) ==
    LET L == S.layers[self]
        r == template_call(S, L.template, L.func, x, L.args, L.kwargs)
    IN  IF r.raised
        THEN [r.state EXCEPT !.pc = "raised",
                             !.ret = [layer |-> self, x |-> x, raised |-> TRUE]]
        ELSE [_add_summary(_layer_logging(r.state, self, x, r.out), self)
                  EXCEPT !.ret = [layer |-> self, x |-> x, raised |-> FALSE,
                                  out |-> r.out]]

\* __rrshift__ applying the template itself, without logging or summary
__rrshift___template_only(S, self, other) ==
    LET L == S.layers[self]
        r == template_call(S, L.template, L.func, other, L.args, L.kwargs)
    IN  [r.state EXCEPT !.pc = IF r.raised THEN "raised" ELSE @,
                        !.ret = IF r.raised
                                THEN [layer |-> self, x |-> other, raised |-> TRUE]
                                ELSE [layer |-> self, x |-> other, raised |-> FALSE,
                                      out |-> r.out]]

\* Layer.__rrshift__(self, other)
__rrshift__(S, self, other) == __call__(S, self, other)

----------------------------------------------------------------------------
(* The statements of a script that uses the module. *)

\* the demo's sizes
batch_size == 10

sequence_length == 5

vocab_size == 100

embedding_dim == 32

NoKw == [k \in {} |-> TRUE]

Ctor(func, args, kwargs) == [func |-> func, args |-> args, kwargs |-> kwargs]

Const(dtype, shape) == Tensor("Const", dtype, shape, NoAttr)

\* the tensor of the demo: word ids of shape (batch_size, sequence_length)
tensor == Const("int64", <<batch_size, sequence_length>>)

\* the value the statement before returned, when it is a tensor
Returned ==
    IF pc = "running" /\ "value" \in DOMAIN ret /\ "out" \in DOMAIN ret.value
    THEN {ret.value.out} ELSE {}

Becomes(T, stmt) ==
    /\ layers' = T.layers
    /\ templates' = T.templates
    /\ var_scopes' = T.var_scopes
    /\ trainable_variables' = T.trainable_variables
    /\ summaries' = T.summaries
    /\ log' = T.log
    /\ pc' = T.pc
    /\ ret' = [stmt |-> stmt, value |-> T.ret]

\* L = func(*args, **kwargs)
Construct(ctors, max_layers) ==
    \E c \in DOMAIN ctors :
        /\ pc = "running"
        /\ Len(layers) < max_layers
        /\ \E T \in {__init__(State, ctors[c].func, ctors[c].args, ctors[c].kwargs)} :
               Becomes(T, "L = func(...)")
        /\ UNCHANGED <<phase, run>>

\* L(x)
Call(inputs, max_calls) ==
    \E self \in DOMAIN layers, x \in inputs \cup Returned :
        /\ pc = "running"
        /\ log.n < max_calls
        /\ \E T \in {__call__(State, self, x)} : Becomes(T, "L(x)")
        /\ UNCHANGED <<phase, run>>

\* x >> L: a tensor has no __rshift__, so Python calls L.__rrshift__(x)
Rshift(inputs, max_calls) ==
    \E self \in DOMAIN layers, x \in inputs \cup Returned :
        /\ pc = "running"
        /\ log.n < max_calls
        /\ \E T \in {__rrshift__(State, self, x)} : Becomes(T, "x >> L")
        /\ UNCHANGED <<phase, run>>

\* x >> A(...) >> B(...), the statement of the demo: A is constructed and
\* applied to x, then B is constructed and applied to the result
chain(S, x, a, b) ==
    LET first == __rrshift__(__init__(S, a.func, a.args, a.kwargs), Len(S.layers) + 1, x)
    IN  CHOOSE T \in { IF S2.pc = "raised" THEN S2
                       ELSE __rrshift__(__init__(S2, b.func, b.args, b.kwargs),
                                        Len(S2.layers) + 1, S2.ret.out) :
                       S2 \in {first} } : TRUE

Main(inputs, ctors, max_layers, max_calls) ==
    \E x \in inputs, a \in DOMAIN ctors, b \in DOMAIN ctors :
        /\ pc = "running"
        /\ Len(layers) + 2 <= max_layers
        /\ log.n + 2 <= max_calls
        /\ \E T \in {chain(State, x, ctors[a], ctors[b])} :
               Becomes(T, "x >> A(...) >> B(...)")
        /\ UNCHANGED <<phase, run>>

\* session.run(_phase_train)
PhaseTrain ==
    /\ pc = "running"
    /\ phase' = TRUE
    /\ UNCHANGED <<layers, templates, var_scopes, trainable_variables, summaries,
                   log, ret, pc, run>>

\* session.run(_phase_infer)
PhaseInfer ==
    /\ pc = "running"
    /\ phase' = FALSE
    /\ UNCHANGED <<layers, templates, var_scopes, trainable_variables, summaries,
                   log, ret, pc, run>>

Init ==
    /\ phase = FALSE
    /\ layers = <<>>
    /\ templates = <<>>
    /\ var_scopes = {}
    /\ trainable_variables = <<>>
    /\ summaries = <<>>
    /\ log = [n |-> 0, last |-> <<>>]
    /\ ret = [stmt |-> "import layers"]
    /\ pc = "running"
    /\ run = [fetch |-> "none"]

----------------------------------------------------------------------------
(* Building graphs: constructing and applying layers. *)

LayerCtors ==
    << Ctor("identity_layer", <<>>, [summary |-> TRUE]),
      Ctor("embedding_layer", <<vocab_size, embedding_dim>>, [summary |-> TRUE]),
      Ctor("dense_layer", <<4>>, NoKw),
      Ctor("dense_layer", <<4>>, [summary |-> TRUE]),
      Ctor("dense_layer", <<5>>, [name |-> <<"x">>, summary |-> TRUE]),
      Ctor("mean_loss_by_example_layer", <<Const("int64", <<batch_size>>)>>, NoKw) >>

LayerInputs ==
    { tensor, Const("float32", <<batch_size, sequence_length>>),
      Const("float32", <<2, 3, 4>>) }

Next ==
    \/ Construct(LayerCtors, MaxLayers)
    \/ Call(LayerInputs, MaxCalls)
    \/ Rshift(LayerInputs, MaxCalls)
    \/ Main(LayerInputs, LayerCtors, MaxLayers, MaxCalls)

Spec == Init /\ [][Next]_vars

----------------------------------------------------------------------------
(* Running dropout layers in a session while the phase flag is toggled. *)

\* the tensor the last statement built, when op made it
Fetched(op) ==
    IF pc = "running" /\ "value" \in DOMAIN ret /\ "out" \in DOMAIN ret.value
       /\ ret.value.out.op = op
    THEN {ret.value.out} ELSE {}

\* the values fed for the layer's input, and the draws of tf.random_uniform
FeedValues == {R(2), R(-1)}

UniformDraws == {R(0), Rat(1, 2)}

\* session.run(out) for out = dropout_layer(keep_prob=...)(x)
RunDropout ==
    \E out \in Fetched("dropout") :
    \E x \in [1..Prod(out.shape) -> FeedValues],
       uniform \in [1..Prod(out.shape) -> UniformDraws] :
        /\ run' = [fetch |-> "dropout", phase |-> phase,
                   requested |-> Get(layers[ret.value.layer].kwargs, "keep_prob", R(1)),
                   keep_prob |-> EvalCond(out.attr.keep_prob),
                   x |-> x, uniform |-> uniform,
                   out |-> dropout_layer_run(x, out.attr.keep_prob, uniform)]
        /\ UNCHANGED <<phase, layers, templates, var_scopes, trainable_variables,
                       summaries, log, ret, pc>>

\* session.run(out) for out = word_dropout_layer(keep_prob=...)(x), x of shape
\* (batch, words, dims): one draw per word
RunWordDropout ==
    \E out \in Fetched("word_dropout") :
    \E x \in [1..(out.shape[1] * out.shape[2]) -> [1..out.shape[3] -> FeedValues]],
       uniform \in [1..(out.shape[1] * out.shape[2]) -> UniformDraws] :
        /\ run' = [fetch |-> "word_dropout", phase |-> phase,
                   requested |-> Get(layers[ret.value.layer].kwargs, "keep_prob", R(1)),
                   keep_prob |-> EvalCond(out.attr.keep_prob),
                   x |-> x, uniform |-> uniform,
                   out |-> word_dropout_layer_run(x, out.attr.keep_prob, uniform)]
        /\ UNCHANGED <<phase, layers, templates, var_scopes, trainable_variables,
                       summaries, log, ret, pc>>

DropoutCtors ==
    << Ctor("dropout_layer", <<>>, [keep_prob |-> Rat(1, 2)]),
       Ctor("dropout_layer", <<>>, [keep_prob |-> R(0), summary |-> TRUE]),
       Ctor("dropout_layer", <<>>, NoKw),
       Ctor("word_dropout_layer", <<>>, [keep_prob |-> Rat(1, 2), summary |-> TRUE]) >>

DropoutInputs == { Const("float32", <<2>>), Const("float32", <<1, 2, 1>>) }

NextPhase ==
    \/ Construct(DropoutCtors, MaxRunLayers)
    \/ Call(DropoutInputs, MaxRunCalls)
    \/ PhaseTrain
    \/ PhaseInfer
    \/ RunDropout
    \/ RunWordDropout

SpecPhase == Init /\ [][NextPhase]_vars

----------------------------------------------------------------------------
(* Running the cross entropy layer in a session. *)

\* the target ids fed, in the shape of the target tensor
TargetIds == 0..2

TargetValues(shape) ==
    IF Len(shape) = 0 THEN TargetIds
    ELSE IF Len(shape) = 1 THEN [1..shape[1] -> TargetIds]
    ELSE [1..shape[1] -> [1..shape[2] -> TargetIds]]

\* the losses sparse_softmax_cross_entropy_with_logits computes from finite logits
CrossEntropies == {Rat(1, 2), R(3)}

\* session.run(out) for out = cross_entropy_layer(target)(logits)
RunCrossEntropy ==
    \E out \in Fetched("cross_entropy") :
    \E target \in TargetValues(layers[ret.value.layer].args[1].shape),
       cross_entropy \in [1..Prod(out.shape) -> CrossEntropies] :
        /\ run' = [fetch |-> "cross_entropy", target |-> target,
                   rank |-> _rank(layers[ret.value.layer].args[1]),
                   cross_entropy |-> cross_entropy,
                   out |-> cross_entropy_layer_run(
                               cross_entropy,
                               IF _rank(ret.value.x) > 1
                               THEN reshape_flat(target, _rank(layers[ret.value.layer].args[1]))
                               ELSE <<target>>)]
        /\ UNCHANGED <<phase, layers, templates, var_scopes, trainable_variables,
                       summaries, log, ret, pc>>

LossCtors ==
    << Ctor("cross_entropy_layer", <<Const("int64", <<2>>)>>, NoKw),
       Ctor("cross_entropy_layer", <<Const("int64", <<1, 2>>)>>, [summary |-> TRUE]),
       Ctor("cross_entropy_layer", <<Const("int64", <<>>)>>, NoKw) >>

LossInputs ==
    { Const("float32", <<2, 3>>), Const("float32", <<1, 2, 3>>), Const("float32", <<3>>) }

NextLoss ==
    \/ Construct(LossCtors, MaxRunLayers)
    \/ Call(LossInputs, MaxRunCalls)
    \/ Rshift(LossInputs, MaxRunCalls)
    \/ RunCrossEntropy

SpecLoss == Init /\ [][NextLoss]_vars

----------------------------------------------------------------------------
(* Properties. *)

Names(variables) == [k \in DOMAIN variables |-> variables[k].name]

\* the trainable variables of S that the template of layer self created: those
\* named <the template's scope>/<name>
VariablesOf(S, self) ==
    SelectSeq(S.trainable_variables,
              LAMBDA v : IsPrefix(variable_scope_name(S, self) \o <<"/">>, v.name))

\* whether L(x) or x >> L has been invoked on layer self in state S
Invoked(S, self) ==
    \/ variables_created(S, self)
    \/ S.pc = "raised" /\ S.ret.value.layer = self

\* this step is the statement L(x) or x >> L on layer self, and it returned
Returns(self) ==
    /\ log'.n = log.n + 1
    /\ ret'.stmt \in {"L(x)", "x >> L"}
    /\ ret'.value.layer = self

\* the summaries this step registered
Registered == SubSeq(summaries', Len(summaries) + 1, Len(summaries'))

\* those of them that are not a layer function's own 'cost' summary
NotCost(tags) == SelectSeq(tags, LAMBDA tag : tag[Len(tag)] # "cost")

SummaryOption(self) == Get(layers[self].kwargs, "summary", FALSE)

(* C1: when the session run reads the phase flag as False, the effective   *)
(* keep probability is 1.0 whatever was requested and dropout_layer and    *)
(* word_dropout_layer return their input unchanged; when it reads True the *)
(* effective keep probability is the requested one.                        *)
C1_PhaseGatesDropout ==
    run.fetch \in {"dropout", "word_dropout"} =>
        /\ ~run.phase => run.keep_prob = R(1) /\ run.out = run.x
        /\ run.phase => run.keep_prob = run.requested

\* a run at inference of a layer asked to keep half, with a draw that drops
\* the first element in training, that returned its input
C1_Witness ==
    /\ run.fetch \in {"dropout", "word_dropout"}
    /\ ~run.phase
    /\ run.requested = Rat(1, 2)
    /\ run.uniform[1] = R(0)
    /\ run.out = run.x

(* C2: a layer has no variable before its first invocation, and once an    *)
(* invocation has returned no later step creates or removes a variable of  *)
(* the layer: later invocations reuse the ones the first created.          *)
C2_VariablesOnlyOnFirstCall ==
    /\ [](\A self \in DOMAIN layers :
              ~Invoked(State, self) => VariablesOf(State, self) = <<>>)
    /\ [][\A self \in DOMAIN layers :
              variables_created(State, self) =>
                  VariablesOf(State', self) = VariablesOf(State, self)]_vars

\* the only layer has variables and two invocations of it have returned
C2_Witness ==
    /\ Len(layers) = 1
    /\ log.n >= 2
    /\ pc = "running"
    /\ VariablesOf(State, 1) # <<>>

(* C3 as stated: a layer with the summary option registers one summary per *)
(* variable of its own scope on its first call and sets summary_added,     *)
(* later calls register no summary, and a layer without the option never   *)
(* registers a summary and keeps summary_added False.                      *)
C3_Original ==
    [][\A self \in DOMAIN layers :
          Returns(self) =>
              IF SummaryOption(self) /\ ~variables_created(State, self)
              THEN /\ Registered = Names(VariablesOf(State', self))
                   /\ layers'[self].summary_added
              ELSE IF SummaryOption(self) THEN Registered = <<>>
              ELSE Registered = <<>> /\ ~layers'[self].summary_added]_vars

(* C3 amended: apart from the 'cost' summary a layer function registers    *)
(* itself on every call, a returning call registers summaries only when it *)
(* is the first call of a layer with the summary option: then one per      *)
(* variable get_variables_in_scope returns, and summary_added is set; any  *)
(* other returning call registers none and leaves summary_added as it was, *)
(* and summary_added is never set without the option.                      *)
C3_SummaryOnFirstCallOnly ==
    /\ [](\A self \in DOMAIN layers : layers[self].summary_added => SummaryOption(self))
    /\ [][\A self \in DOMAIN layers :
              Returns(self) =>
                  /\ SubSeq(summaries', 1, Len(summaries)) = summaries
                  /\ IF SummaryOption(self) /\ ~variables_created(State, self)
                     THEN /\ NotCost(Registered) = Names(get_variables_in_scope(State', self))
                          /\ layers'[self].summary_added
                     ELSE /\ NotCost(Registered) = <<>>
                          /\ layers'[self].summary_added = layers[self].summary_added]_vars

\* the only layer has the option and variables, was called twice, and the
\* graph holds exactly one summary per variable
C3_Witness ==
    /\ Len(layers) = 1
    /\ log.n = 2
    /\ layers[1].summary_added
    /\ trainable_variables # <<>>
    /\ summaries = Names(trainable_variables)

\* x >> A(...) >> B(...) done with calls: A(...) then A(x), B(...) then B(A(x))
nested_calls(S, x, a, b) ==
    LET S1 == __init__(S, a.func, a.args, a.kwargs)
        S2 == __call__(S1, Len(S1.layers), x)
        S3 == __init__(S2, b.func, b.args, b.kwargs)
    IN  IF S2.pc = "raised" THEN S2 ELSE __call__(S3, Len(S3.layers), S2.ret.out)

SameAs(T) ==
    /\ layers' = T.layers
    /\ templates' = T.templates
    /\ var_scopes' = T.var_scopes
    /\ trainable_variables' = T.trainable_variables
    /\ summaries' = T.summaries
    /\ log' = T.log
    /\ pc' = T.pc
    /\ ret'.value = T.ret

(* C4: x >> L leaves the program in the state L(x) leaves it in, with the  *)
(* same returned tensor, log line, summaries and variables, and the chain  *)
(* x >> A(...) >> B(...) does what B(A(x)) does.                           *)
C4_RshiftIsCall ==
    [][/\ ret'.stmt = "x >> L" /\ (log'.n # log.n \/ pc' # pc) =>
              SameAs(__call__(State, ret'.value.layer, ret'.value.x))
       /\ ret'.stmt = "x >> A(...) >> B(...)" /\ Len(layers') # Len(layers) =>
              \E x \in LayerInputs, a \in DOMAIN LayerCtors, b \in DOMAIN LayerCtors :
                  SameAs(nested_calls(State, x, LayerCtors[a], LayerCtors[b]))]_vars

\* the demo's chain has returned the embedded tensor
C4_Witness ==
    /\ ret.stmt = "x >> A(...) >> B(...)"
    /\ pc = "running"
    /\ ret.value.out.shape = <<batch_size, sequence_length, embedding_dim>>
    /\ log.n = 2
    /\ summaries # <<>>

(* C5 as stated: two layers constructed under one name have the same       *)
(* template and the same variable scope, and a layer's name is its 'name'  *)
(* keyword when given and its function's name otherwise.                   *)
C5_Original ==
    /\ \A i, j \in DOMAIN layers :
           layers[i].name = layers[j].name =>
               /\ layers[i].template = layers[j].template
               /\ variable_scope_name(State, i) = variable_scope_name(State, j)
    /\ \A i \in DOMAIN layers :
           layers[i].name = Get(layers[i].kwargs, "name", <<layers[i].func>>)

(* C5 amended: every construction makes a new template with a variable     *)
(* scope of its own, named after the layer's name (the name itself, or the *)
(* name with a suffix _1, _2, ... when the name is in use), so layers      *)
(* constructed under one name share no variable; a layer's name is its     *)
(* 'name' keyword when given and its function's name otherwise.            *)
C5_TemplatePerConstruction ==
    /\ \A i, j \in DOMAIN layers :
           i # j =>
               /\ layers[i].template # layers[j].template
               /\ variable_scope_name(State, i) # variable_scope_name(State, j)
               /\ \A k \in DOMAIN VariablesOf(State, i), m \in DOMAIN VariablesOf(State, j) :
                      VariablesOf(State, i)[k] # VariablesOf(State, j)[m]
    /\ \A i \in DOMAIN layers :
           /\ layers[i].name = Get(layers[i].kwargs, "name", <<layers[i].func>>)
           /\ templates[layers[i].template].name = layers[i].name
           /\ IsPrefix(layers[i].name, variable_scope_name(State, i))
           /\ layers[i].unique_name = variable_scope_name(State, i)

\* two layers of one name, each with variables of its own
C5_Witness ==
    /\ Len(layers) = 2
    /\ layers[1].name = layers[2].name
    /\ VariablesOf(State, 1) # <<>>
    /\ VariablesOf(State, 2) # <<>>

\* the tensor func returns for x where no variable exists yet
FreshOut(func, x, args, kwargs) ==
    Apply(func, [scope |-> <<"fresh">>, reuse |-> FALSE, collection |-> <<>>],
          x, args, kwargs).out

(* C6 as stated: a call changes nothing of any Layer object and not the    *)
(* phase flag.                                                             *)
C6_Original ==
    [][\A self \in DOMAIN layers :
          Returns(self) => layers' = layers /\ phase' = phase]_vars

(* C6 amended: a call changes no layer's func, args, kwargs, name,         *)
(* template or unique_name and not the phase flag; summary_added changes   *)
(* only for the called layer, from False to True, when it has the summary  *)
(* option; and the tensor a returning call returns depends only on the     *)
(* input and the constructor's arguments.                                  *)
C6_CallFrame ==
    [][\A self \in DOMAIN layers :
          Returns(self) =>
              /\ phase' = phase
              /\ DOMAIN layers' = DOMAIN layers
              /\ \A i \in DOMAIN layers :
                     /\ [layers'[i] EXCEPT !.summary_added = layers[i].summary_added]
                            = layers[i]
                     /\ layers'[i].summary_added # layers[i].summary_added =>
                            /\ i = self
                            /\ layers'[i].summary_added
                            /\ SummaryOption(i)
              /\ ret'.value.out = FreshOut(layers[self].func, ret'.value.x,
                                           layers[self].args, layers[self].kwargs)]_vars

\* a later call of a layer with variables and the summary option returned
C6_Witness ==
    /\ ret.stmt \in {"L(x)", "x >> L"}
    /\ pc = "running"
    /\ log.n >= 2
    /\ Len(layers) = 1
    /\ layers[1].summary_added
    /\ VariablesOf(State, 1) # <<>>

(* C7 as stated: a dense layer applied to a float input of rank 2 or more   *)
(* whose last dimension fits the layer's weight returns a tensor with the  *)
(* input's leading dimensions and hidden_dims as the last dimension.       *)
C7_Original ==
    \A self \in DOMAIN layers :
        /\ "value" \in DOMAIN ret /\ "x" \in DOMAIN ret.value
        /\ ret.value.layer = self
        /\ layers[self].func = "dense_layer"
        /\ ret.value.x.dtype = "float32"
        /\ _rank(ret.value.x) >= 2
        /\ VariablesOf(State, self) # <<>>
        /\ VariablesOf(State, self)[1].shape[1] = ret.value.x.shape[_rank(ret.value.x)]
        => /\ ~ret.value.raised
           /\ ret.value.out.shape =
                  SubSeq(ret.value.x.shape, 1, _rank(ret.value.x) - 1)
                      \o <<layers[self].args[1]>>

\* the position of element (r, c) of a matrix with cols columns, read row by row
FlatIndex(r, c, cols) == (r - 1) * cols + c

Masked(loss, id) == IF id = 0 THEN R(0) ELSE loss

(* C8: at every position the output of cross_entropy_layer is 0 when the   *)
(* target id there is 0 and the cross entropy itself otherwise, position i *)
(* of the output going with element i of the targets read row by row.      *)
C8_CrossEntropyMasksPadding ==
    run.fetch = "cross_entropy" =>
        CASE run.rank = 0 ->
                 run.out = <<Masked(run.cross_entropy[1], run.target)>>
          [] run.rank = 1 ->
                 \A i \in DOMAIN run.target :
                     run.out[i] = Masked(run.cross_entropy[i], run.target[i])
          [] run.rank = 2 ->
                 \A r \in DOMAIN run.target : \A c \in DOMAIN run.target[r] :
                     LET i == FlatIndex(r, c, Len(run.target[r]))
                     IN  run.out[i] = Masked(run.cross_entropy[i], run.target[r][c])

\* a run on a matrix of targets with a padding id and a word id
C8_Witness ==
    /\ run.fetch = "cross_entropy"
    /\ run.rank = 2
    /\ run.target[1][1] = 0
    /\ run.target[1][2] = 2
    /\ run.out[1] = R(0)
    /\ run.out[2] = run.cross_entropy[2]

(* C9 as stated: get_variables_in_scope of a layer that has been called    *)
(* returns exactly the variables its own template created, so the          *)
(* summaries a layer registers are of its own variables; through __call__  *)
(* the assertion of get_variables_in_scope holds.                          *)
C9_Original ==
    /\ pc = "running" =>
           \A self \in DOMAIN layers :
               variables_created(State, self) =>
                   get_variables_in_scope(State, self) = VariablesOf(State, self)
    /\ pc = "raised" => ret.value.raised

====
